---- MODULE Spec2Model ----
(***************************************************************************)
(* Model of markdown2html.py: the line-by-line Markdown to HTML converter. *)
(* Text is modelled as sequences of one-character strings; the output file *)
(* is the sequence of lines written to it (each without its final "\n").   *)
(***************************************************************************)
EXTENDS Integers, Sequences, FiniteSets, TLC

(* ---------------------------- bounds ----------------------------------- *)
\* longest input file, in lines, of the specification Spec
MaxLines == 4
\* longest line, in characters, of the one-line files of SpecLine
MaxLineLen == 4
\* longest input file, in lines, of the specification SpecMain
MaxMainLines == 2
\* largest number of command-line arguments of the specification SpecMain
MaxArgs == 3

(* ------------------------- string helpers ------------------------------ *)
\* the characters str.strip() removes that occur in the modelled inputs
Whitespace == {" ", "\t", "\n"}

RECURSIVE lstrip(_)
lstrip(s) ==
    IF s # <<>> /\ Head(s) \in Whitespace THEN lstrip(Tail(s)) ELSE s

RECURSIVE rstrip(_)
rstrip(s) ==
    IF s # <<>> /\ s[Len(s)] \in Whitespace
    THEN rstrip(SubSeq(s, 1, Len(s) - 1)) ELSE s

\* str.strip()
strip(s) == rstrip(lstrip(s))

\* str.startswith(prefix)
startswith(s, prefix) ==
    Len(s) >= Len(prefix) /\ SubSeq(s, 1, Len(prefix)) = prefix

\* s[n:]
slice_from(s, n) == SubSeq(s, n + 1, Len(s))

\* s.split(' ')[0]: the characters before the first space (all of s if none)
RECURSIVE split_first(_)
split_first(s) ==
    IF s = <<>> \/ Head(s) = " " THEN <<>>
    ELSE <<Head(s)>> \o split_first(Tail(s))

\* s.replace(ch, '')
RECURSIVE replace_char(_, _)
replace_char(s, ch) ==
    IF s = <<>> THEN <<>>
    ELSE (IF Head(s) = ch THEN <<>> ELSE <<Head(s)>>)
         \o replace_char(Tail(s), ch)

\* the decimal digits an f-string writes for a non-negative integer
Digits == <<"0", "1", "2", "3", "4", "5", "6", "7", "8", "9">>

RECURSIVE format_int(_)
format_int(n) ==
    IF n < 10 THEN <<Digits[n + 1]>>
    ELSE format_int(n \div 10) \o <<Digits[(n % 10) + 1]>>

(* -------------------- regular-expression substitution ------------------ *)
\* least j >= from with text[j], text[j+1] = close, or 0 when there is none
RECURSIVE find_close(_, _, _)
find_close(text, close, from) ==
    IF from + 1 > Len(text) THEN 0
    ELSE IF SubSeq(text, from, from + 1) = close THEN from
    ELSE find_close(text, close, from + 1)

\* where the pattern  open(.+?)close  matched at position i ends: the
\* position of its closing delimiter, or 0 when it does not match at i
re_match(text, i, open, close) ==
    IF i + 1 <= Len(text) /\ SubSeq(text, i, i + 1) = open
    THEN find_close(text, close, i + 3)
    ELSE 0

\* hashlib.md5(t.encode()).hexdigest() of the texts that occur between
\* [[ and ]] in the modelled inputs
md5_hexdigest(t) ==
    CASE t = <<"a">> ->
           <<"0","c","c","1","7","5","b","9","c","0","f","1","b","6","a","8",
             "3","1","c","3","9","9","e","2","6","9","7","7","2","6","6","1">>
      [] t = <<"c">> ->
           <<"4","a","8","a","0","8","f","0","9","d","3","7","b","7","3","7",
             "9","5","6","4","9","0","3","8","4","0","8","b","5","f","3","3">>
      [] t = <<"x">> ->
           <<"9","d","d","4","e","4","6","1","2","6","8","c","8","0","3","4",
             "f","5","c","8","5","6","4","e","1","5","5","c","6","7","a","6">>
      [] t = <<"*","*","a","*","*">> ->
           <<"7","3","4","4","a","d","e","c","8","5","6","f","e","1","d","0",
             "8","2","4","0","9","5","1","a","9","c","7","5","f","6","7","6">>
      [] t = <<"_","_","a","_","_">> ->
           <<"5","1","f","a","8","c","7","7","1","6","3","3","6","2","f","8",
             "5","2","f","3","9","6","1","4","2","4","4","a","0","4","9","1">>
      [] t = <<"a","*","*">> ->
           <<"c","d","4","a","e","b","9","c","0","7","7","c","4","c","9","6",
             "5","0","5","c","d","f","6","5","d","a","5","4","c","2","9","c">>

\* re.sub(r'\[\[(.+?)\]\]', md5 of group 1, text), scanning from position i
RECURSIVE sub_md5(_, _)
sub_md5(text, i) ==
    IF i > Len(text) THEN <<>>
    ELSE LET j == re_match(text, i, <<"[", "[">>, <<"]", "]">>)
         IN  IF j > 0
             THEN md5_hexdigest(SubSeq(text, i + 2, j - 1))
                  \o sub_md5(text, j + 2)
             ELSE <<text[i]>> \o sub_md5(text, i + 1)

\* variant of sub_strip_c: only the lowercase 'c' is removed
RECURSIVE sub_strip_c_lowercase_only(_, _)
sub_strip_c_lowercase_only(text, i) ==
    IF i > Len(text) THEN <<>>
    ELSE LET j == re_match(text, i, <<"(", "(">>, <<")", ")">>)
         IN  IF j > 0
             THEN replace_char(SubSeq(text, i + 2, j - 1), "c")
                  \o sub_strip_c_lowercase_only(text, j + 2)
             ELSE <<text[i]>> \o sub_strip_c_lowercase_only(text, i + 1)

\* re.sub(r'\(\((.+?)\)\)', group 1 without 'c' and 'C', text)
RECURSIVE sub_strip_c(_, _)
sub_strip_c(text, i) ==
    IF i > Len(text) THEN <<>>
    ELSE LET j == re_match(text, i, <<"(", "(">>, <<")", ")">>)
         IN  IF j > 0
             THEN replace_char(replace_char(SubSeq(text, i + 2, j - 1), "c"),
                               "C")
                  \o sub_strip_c(text, j + 2)
             ELSE <<text[i]>> \o sub_strip_c(text, i + 1)

process_special_syntax(text) == sub_strip_c(sub_md5(text, 1), 1)

\* re.sub(r'\*\*(.+?)\*\*', r'<b>\1</b>', text)
RECURSIVE sub_bold(_, _)
sub_bold(text, i) ==
    IF i > Len(text) THEN <<>>
    ELSE LET j == re_match(text, i, <<"*", "*">>, <<"*", "*">>)
         IN  IF j > 0
             THEN <<"<", "b", ">">> \o SubSeq(text, i + 2, j - 1)
                  \o <<"<", "/", "b", ">">> \o sub_bold(text, j + 2)
             ELSE <<text[i]>> \o sub_bold(text, i + 1)

\* re.sub(r'__(.+?)__', r'<em>\1</em>', text)
RECURSIVE sub_em(_, _)
sub_em(text, i) ==
    IF i > Len(text) THEN <<>>
    ELSE LET j == re_match(text, i, <<"_", "_">>, <<"_", "_">>)
         IN  IF j > 0
             THEN <<"<", "e", "m", ">">> \o SubSeq(text, i + 2, j - 1)
                  \o <<"<", "/", "e", "m", ">">> \o sub_em(text, j + 2)
             ELSE <<text[i]>> \o sub_em(text, i + 1)

parse_bold_text(text) == sub_em(sub_bold(text, 1), 1)

\* variant of inline: the hash/strip pass is left out
inline_no_special_syntax(text) == parse_bold_text(text)

\* the two inline passes every text payload goes through before it is written
inline(text) == parse_bold_text(process_special_syntax(text))

(* --------------------------- output lines ------------------------------ *)
UL_OPEN == <<"<", "u", "l", ">">>
UL_CLOSE == <<"<", "/", "u", "l", ">">>
OL_OPEN == <<"<", "o", "l", ">">>
OL_CLOSE == <<"<", "/", "o", "l", ">">>
P_OPEN == <<"<", "p", ">">>
P_CLOSE == <<"<", "/", "p", ">">>
INDENT == <<" ", " ", " ", " ">>
BR_LINE == INDENT \o <<"<", "b", "r", "/", ">">>

\* f'<h{level}>{text}</h{level}>'
heading_line(level, text) ==
    <<"<", "h">> \o format_int(level) \o <<">">> \o text
    \o <<"<", "/", "h">> \o format_int(level) \o <<">">>

\* f'    <li>{text}</li>'
li_line(text) ==
    INDENT \o <<"<", "l", "i", ">">> \o text \o <<"<", "/", "l", "i", ">">>

\* f'    {text}'
text_line(text) == INDENT \o text

(* ---------------------- the conversion loop ---------------------------- *)
VARIABLES md_file, lineno, html_file,
          in_unordered_list, in_ordered_list, in_paragraph, pc

\* the process around the loop: the number of command-line arguments after
\* the script name, whether the input path is an existing regular file,
\* whether os.path.isfile has been called, whether the output file has been
\* opened for writing, the exit code (-1 while running) and the message
\* printed on the error stream ("" when none)
VARIABLES argc, input_is_file, file_checked, output_opened, exit_code, stderr

main_vars ==
    <<argc, input_is_file, file_checked, output_opened, exit_code, stderr>>

vars == <<md_file, lineno, html_file,
          in_unordered_list, in_ordered_list, in_paragraph, pc,
          argc, input_is_file, file_checked, output_opened, exit_code,
          stderr>>

UsageMessage == "Usage: ./markdown2html.py README.md README.html"
MissingMessage == "Missing {markdown_file}"
ErrorMessage == "Error: {e}"

\* variant of classify: the list tests look at the marker character only
classify_marker_only(stripped_line) ==
    IF startswith(stripped_line, <<"#">>) THEN "heading"
    ELSE IF startswith(stripped_line, <<"-">>) THEN "unordered"
    ELSE IF startswith(stripped_line, <<"*">>) THEN "ordered"
    ELSE IF stripped_line # <<>> THEN "paragraph"
    ELSE "blank"

\* which branch of the if/elif chain a stripped line takes
classify(stripped_line) ==
    IF startswith(stripped_line, <<"#">>) THEN "heading"
    ELSE IF startswith(stripped_line, <<"-", " ">>) THEN "unordered"
    ELSE IF startswith(stripped_line, <<"*", " ">>) THEN "ordered"
    ELSE IF stripped_line # <<>> THEN "paragraph"
    ELSE "blank"

heading_level(stripped_line) == Len(split_first(stripped_line))

heading_text(stripped_line) ==
    strip(slice_from(stripped_line, heading_level(stripped_line)))

list_item_text(stripped_line) == strip(slice_from(stripped_line, 2))

\* Each branch maps the three flags and the stripped line to the lines it
\* writes and the new values of the flags.
\* variant of heading_branch: the three closing tests chained with elif
heading_branch_elif(ul, ol, p, stripped_line) ==
    [written |-> (IF ul THEN <<UL_CLOSE>>
                  ELSE IF ol THEN <<OL_CLOSE>>
                  ELSE IF p THEN <<P_CLOSE>> ELSE <<>>)
                 \o <<heading_line(heading_level(stripped_line),
                                   inline(heading_text(stripped_line)))>>,
     ul |-> FALSE, ol |-> (IF ul THEN ol ELSE FALSE),
     p |-> (IF ul \/ ol THEN p ELSE FALSE)]

heading_branch(ul, ol, p, stripped_line) ==
    [written |-> (IF ul THEN <<UL_CLOSE>> ELSE <<>>)
                 \o (IF ol THEN <<OL_CLOSE>> ELSE <<>>)
                 \o (IF p THEN <<P_CLOSE>> ELSE <<>>)
                 \o <<heading_line(heading_level(stripped_line),
                                   inline(heading_text(stripped_line)))>>,
     ul |-> FALSE, ol |-> FALSE, p |-> FALSE]

\* variant of unordered_branch: in_unordered_list is not set
unordered_branch_flag_unset(ul, ol, p, stripped_line) ==
    [written |-> (IF ~ul
                  THEN (IF p THEN <<P_CLOSE>> ELSE <<>>) \o <<UL_OPEN>>
                  ELSE <<>>)
                 \o <<li_line(inline(list_item_text(stripped_line)))>>,
     ul |-> ul, ol |-> ol, p |-> (IF ~ul THEN FALSE ELSE p)]

unordered_branch(ul, ol, p, stripped_line) ==
    [written |-> (IF ~ul
                  THEN (IF p THEN <<P_CLOSE>> ELSE <<>>) \o <<UL_OPEN>>
                  ELSE <<>>)
                 \o <<li_line(inline(list_item_text(stripped_line)))>>,
     ul |-> TRUE, ol |-> ol, p |-> (IF ~ul THEN FALSE ELSE p)]

\* variant of ordered_branch: an open paragraph is not closed
ordered_branch_keeps_paragraph(ul, ol, p, stripped_line) ==
    [written |-> (IF ~ol THEN <<OL_OPEN>> ELSE <<>>)
                 \o <<li_line(inline(list_item_text(stripped_line)))>>,
     ul |-> ul, ol |-> TRUE, p |-> p]

ordered_branch(ul, ol, p, stripped_line) ==
    [written |-> (IF ~ol
                  THEN (IF p THEN <<P_CLOSE>> ELSE <<>>) \o <<OL_OPEN>>
                  ELSE <<>>)
                 \o <<li_line(inline(list_item_text(stripped_line)))>>,
     ul |-> ul, ol |-> TRUE, p |-> (IF ~ol THEN FALSE ELSE p)]

\* variant of paragraph_branch: an open ordered list is not closed
paragraph_branch_keeps_ol(ul, ol, p, stripped_line) ==
    [written |-> (IF ~p
                  THEN (IF ul THEN <<UL_CLOSE>> ELSE <<>>) \o <<P_OPEN>>
                  ELSE <<BR_LINE>>)
                 \o <<text_line(inline(stripped_line))>>,
     ul |-> (IF ~p THEN FALSE ELSE ul), ol |-> ol, p |-> TRUE]

\* variant of paragraph_branch: the text is written only for the first line
\* of a paragraph
paragraph_branch_drops_text(ul, ol, p, stripped_line) ==
    [written |-> (IF ~p
                  THEN (IF ul THEN <<UL_CLOSE>> ELSE <<>>)
                       \o (IF ol THEN <<OL_CLOSE>> ELSE <<>>)
                       \o <<P_OPEN, text_line(inline(stripped_line))>>
                  ELSE <<BR_LINE>>),
     ul |-> (IF ~p THEN FALSE ELSE ul),
     ol |-> (IF ~p THEN FALSE ELSE ol),
     p |-> TRUE]

paragraph_branch(ul, ol, p, stripped_line) ==
    [written |-> (IF ~p
                  THEN (IF ul THEN <<UL_CLOSE>> ELSE <<>>)
                       \o (IF ol THEN <<OL_CLOSE>> ELSE <<>>)
                       \o <<P_OPEN>>
                  ELSE <<BR_LINE>>)
                 \o <<text_line(inline(stripped_line))>>,
     ul |-> (IF ~p THEN FALSE ELSE ul),
     ol |-> (IF ~p THEN FALSE ELSE ol),
     p |-> TRUE]

\* variant of blank_branch: a blank line ends the open lists too
blank_branch_closes_lists(ul, ol, p, stripped_line) ==
    [written |-> (IF ul THEN <<UL_CLOSE>> ELSE <<>>)
                 \o (IF ol THEN <<OL_CLOSE>> ELSE <<>>)
                 \o (IF p THEN <<P_CLOSE>> ELSE <<>>),
     ul |-> FALSE, ol |-> FALSE, p |-> FALSE]

blank_branch(ul, ol, p, stripped_line) ==
    [written |-> IF p THEN <<P_CLOSE>> ELSE <<>>,
     ul |-> ul, ol |-> ol, p |-> FALSE]

\* variant of end_of_file: the ordered list is closed first
end_of_file_ol_first(ul, ol, p) ==
    (IF ol THEN <<OL_CLOSE>> ELSE <<>>)
    \o (IF ul THEN <<UL_CLOSE>> ELSE <<>>)
    \o (IF p THEN <<P_CLOSE>> ELSE <<>>)

\* variant of end_of_file: the three tests chained with elif
end_of_file_elif(ul, ol, p) ==
    IF ul THEN <<UL_CLOSE>>
    ELSE IF ol THEN <<OL_CLOSE>>
    ELSE IF p THEN <<P_CLOSE>> ELSE <<>>

\* the closing lines written after the loop; the flags are not reset
end_of_file(ul, ol, p) ==
    (IF ul THEN <<UL_CLOSE>> ELSE <<>>)
    \o (IF ol THEN <<OL_CLOSE>> ELSE <<>>)
    \o (IF p THEN <<P_CLOSE>> ELSE <<>>)

(* ------------------------------ inputs --------------------------------- *)
\* the lines the files of Spec are made of: every kind of line, with and
\* without inline markup and surrounding whitespace
Lines ==
    { <<"#", " ", "[", "[", "a", "]", "]", "\n">>,
      <<"-", " ", "a", "\n">>,
      <<" ", "-", " ", "_", "_", "b", "_", "_", "\n">>,
      <<"*", " ", "*", "*", "a", "*", "*", "\n">>,
      <<"a", "\n">>,
      <<"(", "(", "c", "a", "C", ")", ")", " ", "\n">>,
      <<"\n">>,
      <<" ", "\t", "\n">> }

\* what precedes the span in the texts of SpecText
Pres ==
    { <<>>,
      <<"(", "(">>,
      <<"*", "*", "x">> }

\* the inner texts of the [[...]] spans of SpecText
HashInners ==
    { <<"a">>,
      <<"*", "*", "a", "*", "*">>,
      <<"_", "_", "a", "_", "_">>,
      <<"a", "*", "*">> }

\* the inner texts of the ((...)) spans of SpecText
StripInners ==
    { <<"C", "o", "c", "o", "a">>,
      <<"*", "*", "a", "*", "*">>,
      <<"_", "_", "c", "_", "_">>,
      <<"a", "*", "*">> }

\* texts without a complete span: empty or unmatched delimiters, plain text
Loose ==
    { <<"(", "(", ")", ")">>,
      <<"(", "(", "a">>,
      <<"a", ")", ")">>,
      <<"c">> }

\* what follows the span in the texts of SpecText
Posts ==
    { <<>>,
      <<")", ")">>,
      <<"*", "*">> }

\* the markers that make a text a heading, a list item or a paragraph line
Prefixes ==
    { <<"#", " ">>,
      <<"-", " ">>,
      <<"*", " ">>,
      <<>> }

HashSpan(inner) == <<"[", "[">> \o inner \o <<"]", "]">>
StripSpan(inner) == <<"(", "(">> \o inner \o <<")", ")">>

\* the text payloads of SpecText: a span or a loose text between a Pres and
\* a Posts text
Texts ==
    LET mids == {HashSpan(x) : x \in HashInners}
                \cup {StripSpan(x) : x \in StripInners} \cup Loose
    IN  {a \o b \o c : a \in Pres, b \in mids, c \in Posts}

\* the characters the one-line files of SpecLine are made of
LineAlphabet == {"#", "-", "*", " ", "\t", "a"}

RECURSIVE SeqsUpTo(_, _)
SeqsUpTo(S, n) ==
    IF n = 0 THEN {<<>>}
    ELSE LET shorter == SeqsUpTo(S, n - 1)
         IN  shorter \cup {Append(s, x) : s \in shorter, x \in S}

\* the state in which the loop starts: main was given its two paths, the
\* input is a file and both files have been opened
Fresh ==
    /\ lineno = 0
    /\ html_file = <<>>
    /\ in_unordered_list = FALSE
    /\ in_ordered_list = FALSE
    /\ in_paragraph = FALSE
    /\ pc = "loop"
    /\ argc = 2
    /\ input_is_file = TRUE
    /\ file_checked = TRUE
    /\ output_opened = TRUE
    /\ exit_code = -1
    /\ stderr = ""

\* any file of at most MaxLines lines
Init == md_file \in SeqsUpTo(Lines, MaxLines) /\ Fresh

\* any file of one line of at most MaxLineLen characters
InitLine ==
    /\ md_file \in {<<l>> : l \in SeqsUpTo(LineAlphabet, MaxLineLen) \ {<<>>}}
    /\ Fresh

\* any file of one line carrying one of the Texts as a heading, a list item
\* or a paragraph line, alone or followed by an empty line
InitText ==
    /\ md_file \in {<<m \o t \o <<"\n">> >> : m \in Prefixes, t \in Texts}
                   \cup {<<m \o t \o <<"\n">>, <<"\n">> >> :
                             m \in Prefixes, t \in Texts}
    /\ Fresh

(* ------------------------------ actions -------------------------------- *)
\* the line the for loop reads next, stripped
stripped_next == strip(md_file[lineno + 1])

\* one iteration of the loop taking the given branch
Iterate(kind, r) ==
    /\ pc = "loop"
    /\ lineno < Len(md_file)
    /\ classify(stripped_next) = kind
    /\ html_file' = html_file \o r.written
    /\ in_unordered_list' = r.ul
    /\ in_ordered_list' = r.ol
    /\ in_paragraph' = r.p
    /\ lineno' = lineno + 1
    /\ UNCHANGED <<md_file, pc, main_vars>>

Heading ==
    Iterate("heading", heading_branch(in_unordered_list, in_ordered_list,
                                      in_paragraph, stripped_next))

UnorderedItem ==
    Iterate("unordered", unordered_branch(in_unordered_list, in_ordered_list,
                                          in_paragraph, stripped_next))

OrderedItem ==
    Iterate("ordered", ordered_branch(in_unordered_list, in_ordered_list,
                                      in_paragraph, stripped_next))

ParagraphLine ==
    Iterate("paragraph", paragraph_branch(in_unordered_list, in_ordered_list,
                                          in_paragraph, stripped_next))

BlankLine ==
    Iterate("blank", blank_branch(in_unordered_list, in_ordered_list,
                                  in_paragraph, stripped_next))

\* the input is exhausted: close what is still open
EndOfFile ==
    /\ pc = "loop"
    /\ lineno = Len(md_file)
    /\ html_file' = html_file \o end_of_file(in_unordered_list,
                                             in_ordered_list, in_paragraph)
    /\ pc' = "done"
    /\ UNCHANGED <<md_file, lineno, main_vars,
                   in_unordered_list, in_ordered_list, in_paragraph>>

Next ==
    \/ Heading
    \/ UnorderedItem
    \/ OrderedItem
    \/ ParagraphLine
    \/ BlankLine
    \/ EndOfFile

Spec == Init /\ [][Next]_vars

SpecLine == InitLine /\ [][Next]_vars

SpecText == InitText /\ [][Next]_vars

(* ------------------------- the process: main --------------------------- *)
\* variant of main_branch: the existence of the input file is not tested
main_branch_no_isfile(n, isfile) ==
    IF n < 2 THEN "usage" ELSE "convert"

\* variant of main_branch: the argument test is  len(sys.argv) < 2
main_branch_one_arg(n, isfile) ==
    IF n < 1 THEN "usage"
    ELSE IF ~isfile THEN "missing"
    ELSE "convert"

\* what main does with n command-line arguments: len(sys.argv) is n + 1
main_branch(n, isfile) ==
    IF n + 1 < 3 THEN "usage"
    ELSE IF ~isfile THEN "missing"
    ELSE "convert"

\* variant of except_handler: the error is printed and the function returns,
\* so that main goes on to sys.exit(0)
except_handler_returns == [stderr |-> ErrorMessage, exit_code |-> 0]

\* the except clause of convert_markdown_to_html
except_handler == [stderr |-> ErrorMessage, exit_code |-> 1]

\* any command line, any input path, any file of at most MaxMainLines lines;
\* without an argument there is no input path, without a file no lines
InitMain ==
    /\ argc \in 0..MaxArgs
    /\ input_is_file \in (IF argc = 0 THEN {FALSE} ELSE BOOLEAN)
    /\ md_file \in (IF input_is_file THEN SeqsUpTo(Lines, MaxMainLines)
                    ELSE {<<>>})
    /\ lineno = 0
    /\ html_file = <<>>
    /\ in_unordered_list = FALSE
    /\ in_ordered_list = FALSE
    /\ in_paragraph = FALSE
    /\ pc = "main"
    /\ file_checked = FALSE
    /\ output_opened = FALSE
    /\ exit_code = -1
    /\ stderr = ""

conversion_vars ==
    <<md_file, lineno, html_file,
      in_unordered_list, in_ordered_list, in_paragraph>>

\* too few arguments: usage message, exit code 1
UsageError ==
    /\ pc = "main"
    /\ main_branch(argc, input_is_file) = "usage"
    /\ stderr' = UsageMessage
    /\ exit_code' = 1
    /\ pc' = "exit"
    /\ UNCHANGED <<conversion_vars, argc, input_is_file, file_checked,
                   output_opened>>

\* the input path is not a file: message, exit code 1
MissingFile ==
    /\ pc = "main"
    /\ main_branch(argc, input_is_file) = "missing"
    /\ file_checked' = TRUE
    /\ stderr' = MissingMessage
    /\ exit_code' = 1
    /\ pc' = "exit"
    /\ UNCHANGED <<conversion_vars, argc, input_is_file, output_opened>>

\* convert_markdown_to_html is called and opens both files
OpenFiles ==
    /\ pc = "main"
    /\ main_branch(argc, input_is_file) = "convert"
    /\ file_checked' = TRUE
    /\ output_opened' = TRUE
    /\ html_file' = <<>>
    /\ in_unordered_list' = FALSE
    /\ in_ordered_list' = FALSE
    /\ in_paragraph' = FALSE
    /\ pc' = "loop"
    /\ UNCHANGED <<md_file, lineno, argc, input_is_file, exit_code, stderr>>

\* an exception reaches the except clause, the output file holding out
Raises(out) ==
    /\ html_file' = out
    /\ stderr' = except_handler.stderr
    /\ exit_code' = except_handler.exit_code
    /\ pc' = "exit"
    /\ UNCHANGED <<md_file, lineno, argc, input_is_file,
                   in_unordered_list, in_ordered_list, in_paragraph>>

\* convert_markdown_to_html is called and one of the two open() calls raises
OpenFails ==
    /\ pc = "main"
    /\ main_branch(argc, input_is_file) = "convert"
    /\ file_checked' = TRUE
    /\ UNCHANGED output_opened
    /\ Raises(html_file)

\* reading the next line raises (e.g. it cannot be decoded)
ReadFails ==
    /\ pc = "loop"
    /\ lineno < Len(md_file)
    /\ UNCHANGED <<file_checked, output_opened>>
    /\ Raises(html_file)

\* the lines a branch writes before the line that carries the text
tags_written(kind) ==
    LET r == CASE kind = "heading" ->
                      heading_branch(in_unordered_list, in_ordered_list,
                                     in_paragraph, stripped_next)
               [] kind = "unordered" ->
                      unordered_branch(in_unordered_list, in_ordered_list,
                                       in_paragraph, stripped_next)
               [] kind = "ordered" ->
                      ordered_branch(in_unordered_list, in_ordered_list,
                                     in_paragraph, stripped_next)
               [] kind = "paragraph" ->
                      paragraph_branch(in_unordered_list, in_ordered_list,
                                       in_paragraph, stripped_next)
    IN  SubSeq(r.written, 1, Len(r.written) - 1)

\* processing or writing the text of a line raises after the line's tag
\* lines have been written
TransformFails ==
    /\ pc = "loop"
    /\ lineno < Len(md_file)
    /\ classify(stripped_next) # "blank"
    /\ UNCHANGED <<file_checked, output_opened>>
    /\ Raises(html_file \o tags_written(classify(stripped_next)))

\* leaving the with block (flushing and closing the files) raises
CloseFails ==
    /\ pc = "done"
    /\ UNCHANGED <<file_checked, output_opened>>
    /\ Raises(html_file)

\* convert_markdown_to_html returns and main calls sys.exit(0)
ExitSuccess ==
    /\ pc = "done"
    /\ exit_code' = 0
    /\ pc' = "exit"
    /\ UNCHANGED <<conversion_vars, argc, input_is_file, file_checked,
                   output_opened, stderr>>

MainNext ==
    \/ UsageError
    \/ MissingFile
    \/ OpenFiles
    \/ OpenFails
    \/ ReadFails
    \/ TransformFails
    \/ CloseFails
    \/ ExitSuccess
    \/ Next

SpecMain == InitMain /\ [][MainNext]_vars

TypeOK ==
    /\ lineno \in 0..Len(md_file)
    /\ in_unordered_list \in BOOLEAN
    /\ in_ordered_list \in BOOLEAN
    /\ in_paragraph \in BOOLEAN
    /\ pc \in {"main", "loop", "done", "exit"}
    /\ argc \in Nat
    /\ exit_code \in {-1, 0, 1}
    /\ stderr \in {"", UsageMessage, MissingMessage, ErrorMessage}

(* ----------------------- vocabulary of the properties ------------------ *)
\* the lines the current step appends to the output file
written == SubSeq(html_file', Len(html_file) + 1, Len(html_file'))

\* the current step is an iteration of the loop on a line of the given kind
Reads(kind) == lineno' = lineno + 1 /\ classify(stripped_next) = kind

\* the current step is the flush at the end of the input
Flushes == pc = "loop" /\ pc' = "done"

\* the kind of the i-th line of the input
KindOfLine(i) == classify(strip(md_file[i]))

\* the kind of the line the loop has just processed ("none" before the first)
LastKind == IF lineno = 0 THEN "none" ELSE KindOfLine(lineno)

RECURSIVE Count(_, _)
Count(out, line) ==
    IF out = <<>> THEN 0
    ELSE (IF Head(out) = line THEN 1 ELSE 0) + Count(Tail(out), line)

IsHeadingLine(l) == Len(l) >= 3 /\ SubSeq(l, 1, 2) = <<"<", "h">>

IsLiLine(l) ==
    startswith(l, INDENT \o <<"<", "l", "i", ">">>)

OpenTags == {UL_OPEN, OL_OPEN, P_OPEN}
CloseTags == {UL_CLOSE, OL_CLOSE, P_CLOSE}

CloseOf(open) ==
    CASE open = UL_OPEN -> UL_CLOSE
      [] open = OL_OPEN -> OL_CLOSE
      [] open = P_OPEN -> P_CLOSE

\* the block elements open after the lines of out, innermost last; a closing
\* line removes the innermost one
RECURSIVE OpenElements(_)
OpenElements(out) ==
    IF out = <<>> THEN <<>>
    ELSE LET before == OpenElements(SubSeq(out, 1, Len(out) - 1))
             l == out[Len(out)]
         IN  IF l \in OpenTags THEN Append(before, l)
             ELSE IF l \in CloseTags /\ before # <<>>
                  THEN SubSeq(before, 1, Len(before) - 1)
                  ELSE before

\* every closing line of out closes the innermost element open before it
ClosesInnermost(out) ==
    \A i \in 1..Len(out) :
        out[i] \in CloseTags =>
            LET before == OpenElements(SubSeq(out, 1, i - 1))
            IN  before # <<>> /\ out[i] = CloseOf(before[Len(before)])

Innermost(out) ==
    LET open == OpenElements(out)
    IN  IF open = <<>> THEN <<>> ELSE open[Len(open)]

(* ------------------------------ claims --------------------------------- *)
\* C1: in every reachable state at most one of in_unordered_list,
\* in_ordered_list and in_paragraph is true.
C1_AtMostOneFlag ==
    /\ ~(in_unordered_list /\ in_ordered_list)
    /\ ~(in_unordered_list /\ in_paragraph)
    /\ ~(in_ordered_list /\ in_paragraph)

\* C2: the block tags written are correctly nested: every closing line closes
\* the innermost open element, and every list item is written while the
\* innermost open element is the list matching the item's marker.
C2_CorrectlyNested ==
    [][/\ ClosesInnermost(html_file')
       /\ Reads("unordered") => Innermost(html_file') = UL_OPEN
       /\ Reads("ordered") => Innermost(html_file') = OL_OPEN]_vars

\* C3: once the end-of-file flush has run, every opened block element has been
\* closed: as many </ul> as <ul> lines, </ol> as <ol>, </p> as <p>.
C3_AllClosed ==
    pc = "done" =>
        /\ Count(html_file, UL_OPEN) = Count(html_file, UL_CLOSE)
        /\ Count(html_file, OL_OPEN) = Count(html_file, OL_CLOSE)
        /\ Count(html_file, P_OPEN) = Count(html_file, P_CLOSE)

\* a finished conversion whose flush had both lists to close and which had
\* opened and closed paragraphs as well
C3_Witness ==
    /\ pc = "done"
    /\ in_unordered_list /\ in_ordered_list
    /\ Count(html_file, P_OPEN) >= 1
    /\ Count(html_file, UL_OPEN) >= 1
    /\ Count(html_file, OL_OPEN) >= 1

\* C4: a list item arriving while a list of the other type is open first
\* closes the open list (closing line written, flag cleared) before the new
\* list's opening line is written.
C4_ClosesOtherList ==
    [][/\ (Reads("ordered") /\ in_unordered_list) =>
              /\ ~in_unordered_list'
              /\ Count(written, UL_CLOSE) = 1
              /\ Count(written, OL_OPEN) = 1 =>
                     \E i, j \in 1..Len(written) :
                         i < j /\ written[i] = UL_CLOSE
                               /\ written[j] = OL_OPEN
       /\ (Reads("unordered") /\ in_ordered_list) =>
              /\ ~in_ordered_list'
              /\ Count(written, OL_CLOSE) = 1
              /\ Count(written, UL_OPEN) = 1 =>
                     \E i, j \in 1..Len(written) :
                         i < j /\ written[i] = OL_CLOSE
                               /\ written[j] = UL_OPEN]_vars

\* the closing lines of the contexts that are open, as a set
OpenCloses ==
    (IF in_unordered_list THEN {UL_CLOSE} ELSE {})
    \cup (IF in_ordered_list THEN {OL_CLOSE} ELSE {})
    \cup (IF in_paragraph THEN {P_CLOSE} ELSE {})

\* C5: a heading line writes the closing line of every open list or paragraph
\* and nothing else, then the <hN> line, and leaves all three flags false.
C5_HeadingClosesAll ==
    [][Reads("heading") =>
           /\ written # <<>>
           /\ IsHeadingLine(written[Len(written)])
           /\ Len(written) = Cardinality(OpenCloses) + 1
           /\ {written[i] : i \in 1..(Len(written) - 1)} = OpenCloses
           /\ ~in_unordered_list' /\ ~in_ordered_list' /\ ~in_paragraph']_vars

\* a heading has just closed two open lists
C5_Witness ==
    /\ LastKind = "heading"
    /\ Len(html_file) >= 3
    /\ IsHeadingLine(html_file[Len(html_file)])
    /\ html_file[Len(html_file) - 1] = OL_CLOSE
    /\ html_file[Len(html_file) - 2] = UL_CLOSE
    /\ ~in_unordered_list /\ ~in_ordered_list /\ ~in_paragraph

\* the kind of the last non-blank line among the first n lines of the input
RECURSIVE LastNonBlankKind(_)
LastNonBlankKind(n) ==
    IF n = 0 THEN "none"
    ELSE IF KindOfLine(n) # "blank" THEN KindOfLine(n)
    ELSE LastNonBlankKind(n - 1)

\* the current step handles a line or the end of the input
Steps == lineno' = lineno + 1 \/ Flushes

\* what the claim C6 says of the runs of list items of one kind: the first
\* item of a run writes the opening line and its <li> line, a further item
\* only its <li> line, a blank line inside the run nothing, and whatever ends
\* the run (another non-blank line or the end of the input) first writes the
\* closing line, which is written nowhere else
ListRun(kind, open, close) ==
    LET inRun == LastNonBlankKind(lineno) = kind
        li == li_line(inline(strip(slice_from(stripped_next, 2))))
    IN  /\ (Reads(kind) /\ ~inRun) =>
               /\ Len(written) >= 2
               /\ written[Len(written) - 1] = open
               /\ written[Len(written)] = li
               /\ Count(written, open) = 1
        /\ (Reads(kind) /\ inRun) => written = <<li>>
        /\ (Reads("blank") /\ inRun) => written = <<>>
        /\ (Steps /\ ~Reads(kind) /\ ~Reads("blank") /\ inRun) =>
               /\ written # <<>>
               /\ written[1] = close
               /\ Count(written, close) = 1
        /\ (Steps /\ ~inRun) => Count(written, close) = 0

\* C6: a maximal run of unordered items (blank lines allowed in between) is
\* written as one <ul> line, one <li> line per item in order and one </ul>
\* line that precedes any output of the line after the run (or is written at
\* the end of the input); likewise for ordered items with <ol> and </ol>.
C6_ListRuns ==
    [][/\ ListRun("unordered", UL_OPEN, UL_CLOSE)
       /\ ListRun("ordered", OL_OPEN, OL_CLOSE)]_vars

\* C7: a maximal run of consecutive paragraph lines is written as one <p>
\* line, the first line's processed text, a <br/> line and the processed text
\* for each further line, and exactly one </p> line, written by the step that
\* ends the run (blank line, heading, list item, end of input) before
\* anything else that step writes.
C7_ParagraphRuns ==
    [][LET inRun == LastKind = "paragraph"
           text == text_line(inline(stripped_next))
       IN  /\ (Reads("paragraph") /\ ~inRun) =>
                  /\ Len(written) >= 2
                  /\ written[Len(written) - 1] = P_OPEN
                  /\ written[Len(written)] = text
                  /\ Count(written, P_OPEN) = 1
                  /\ Count(written, BR_LINE) = 0
           /\ (Reads("paragraph") /\ inRun) => written = <<BR_LINE, text>>
           /\ (Steps /\ ~Reads("paragraph") /\ inRun) =>
                  /\ written # <<>>
                  /\ written[1] = P_CLOSE
                  /\ Count(written, P_CLOSE) = 1
           /\ (Steps /\ ~(~Reads("paragraph") /\ inRun)) =>
                  Count(written, P_CLOSE) = 0]_vars

\* a run of two paragraph lines after a list has just been ended by a list item
C7_Witness ==
    /\ lineno >= 4
    /\ KindOfLine(lineno - 3) = "unordered"
    /\ KindOfLine(lineno - 2) = "paragraph"
    /\ KindOfLine(lineno - 1) = "paragraph"
    /\ KindOfLine(lineno) = "ordered"
    /\ Len(html_file) >= 8
    /\ SubSeq(html_file, Len(html_file) - 7, Len(html_file) - 6)
           = <<UL_CLOSE, P_OPEN>>
    /\ html_file[Len(html_file) - 4] = BR_LINE
    /\ SubSeq(html_file, Len(html_file) - 2, Len(html_file) - 1)
           = <<P_CLOSE, OL_OPEN>>

\* C8: a blank line writes </p> and clears in_paragraph when a paragraph is
\* open, writes nothing else, and leaves in_unordered_list and
\* in_ordered_list unchanged.
C8_BlankLine ==
    [][Reads("blank") =>
           /\ written = IF in_paragraph THEN <<P_CLOSE>> ELSE <<>>
           /\ ~in_paragraph'
           /\ in_unordered_list' = in_unordered_list
           /\ in_ordered_list' = in_ordered_list]_vars

\* a blank line has just been read after a list item and the list is still
\* open with nothing written after the item
C8_Witness ==
    /\ lineno >= 2
    /\ KindOfLine(lineno) = "blank"
    /\ KindOfLine(lineno - 1) = "unordered"
    /\ in_unordered_list
    /\ IsLiLine(html_file[Len(html_file)])

(* --------------------- claims about single lines ----------------------- *)
\* the stripped form of the first line of the file
TheLine == strip(md_file[1])

\* the loop has handled the first line and nothing else has happened since
HandledFirst == pc = "loop" /\ lineno = 1

Markers == {"-", "*"}

\* the handled line was taken as a list item / as a paragraph line, as the
\* output shows
WroteListItem ==
    /\ Len(html_file) >= 2
    /\ html_file[1] \in {UL_OPEN, OL_OPEN}
    /\ IsLiLine(html_file[2])

WroteParagraphLine ==
    /\ Len(html_file) >= 2
    /\ html_file[1] = P_OPEN
    /\ html_file[2] = text_line(inline(TheLine))

\* C9 as stated: a line is taken as a list item only when its stripped form is
\* a marker, exactly one space, then the item text; a marker followed by no
\* space or by two or more spaces makes it a paragraph line.
C9_ExactlyOneSpace ==
    (HandledFirst /\ TheLine # <<>> /\ TheLine[1] \in Markers) =>
        /\ WroteListItem =>
               /\ Len(TheLine) >= 3
               /\ TheLine[2] = " "
               /\ TheLine[3] # " "
        /\ (Len(TheLine) = 1 \/ TheLine[2] # " ") => WroteParagraphLine
        /\ (Len(TheLine) >= 3 /\ TheLine[2] = " " /\ TheLine[3] = " ") =>
               WroteParagraphLine

\* C9 amended: a line is taken as a list item exactly when its stripped form
\* starts with a marker followed by at least one space; the list is <ul> for
\* '-' and <ol> for '*', the item text is what follows the marker and its
\* first space, trimmed (so further spaces are dropped); a marker followed by
\* no space makes the line a paragraph line.
C9_AtLeastOneSpace ==
    (HandledFirst /\ TheLine # <<>> /\ TheLine[1] \in Markers) =>
        IF Len(TheLine) >= 2 /\ TheLine[2] = " "
        THEN html_file =
                 << IF TheLine[1] = "-" THEN UL_OPEN ELSE OL_OPEN,
                    li_line(inline(strip(SubSeq(TheLine, 3, Len(TheLine))))) >>
        ELSE WroteParagraphLine /\ ~WroteListItem

\* a line whose marker is followed by two spaces has been written as an item
C9_Witness ==
    /\ HandledFirst
    /\ TheLine = <<"-", " ", " ", "a">>
    /\ html_file = <<UL_OPEN, li_line(<<"a">>)>>

\* the number of '#' characters s starts with
RECURSIVE LeadingHashes(_)
LeadingHashes(s) ==
    IF s # <<>> /\ Head(s) = "#" THEN 1 + LeadingHashes(Tail(s)) ELSE 0

\* C10: for a line whose stripped form starts with '#', the level N of the
\* <hN> line is the number of '#' characters the stripped line starts with,
\* and the heading text is the rest of the line after them, trimmed.
C10_HeadingLevel ==
    (HandledFirst /\ startswith(TheLine, <<"#">>)) =>
        LET n == LeadingHashes(TheLine)
        IN  html_file =
                <<heading_line(n, inline(strip(slice_from(TheLine, n))))>>

(* ------------------- claims about the whole output --------------------- *)
\* the number of the three flags that are set
FlagsSet ==
    (IF in_unordered_list THEN 1 ELSE 0) + (IF in_ordered_list THEN 1 ELSE 0)
    + (IF in_paragraph THEN 1 ELSE 0)

\* in sequence w every line a comes before every line b
AllBefore(w, a, b) ==
    \A i, j \in 1..Len(w) : (w[i] = a /\ w[j] = b) => i < j

\* C17: at the end of the input the open contexts are flushed in the order
\* </ul>, </ol>, </p>, each written once if and only if its flag is set, and
\* nothing is written after them.
C17_FlushOrder ==
    [][/\ Flushes =>
              /\ Count(written, UL_CLOSE) = IF in_unordered_list THEN 1 ELSE 0
              /\ Count(written, OL_CLOSE) = IF in_ordered_list THEN 1 ELSE 0
              /\ Count(written, P_CLOSE) = IF in_paragraph THEN 1 ELSE 0
              /\ Len(written) = FlagsSet
              /\ AllBefore(written, UL_CLOSE, OL_CLOSE)
              /\ AllBefore(written, UL_CLOSE, P_CLOSE)
              /\ AllBefore(written, OL_CLOSE, P_CLOSE)
       /\ pc = "done" => html_file' = html_file]_vars

\* the flush has closed both lists, the unordered one first
C17_Witness ==
    /\ pc = "done"
    /\ in_unordered_list /\ in_ordered_list
    /\ Len(html_file) >= 2
    /\ SubSeq(html_file, Len(html_file) - 1, Len(html_file))
           = <<UL_CLOSE, OL_CLOSE>>

\* C18: a paragraph is never open together with a list.
C18_ParagraphExcludesLists ==
    in_paragraph => (~in_unordered_list /\ ~in_ordered_list)

\* a paragraph has been opened by a line that found both lists open
C18_Witness ==
    /\ in_paragraph
    /\ lineno >= 3
    /\ KindOfLine(lineno - 2) = "unordered"
    /\ KindOfLine(lineno - 1) = "ordered"
    /\ KindOfLine(lineno) = "paragraph"
    /\ Count(html_file, UL_CLOSE) = 1
    /\ Count(html_file, OL_CLOSE) = 1

\* opening lines minus closing lines among the lines of out
Balance(out, open, close) == Count(out, open) - Count(out, close)

\* C19: after every processed line each flag is the balance of its tag in
\* the output written so far (1 when set, 0 when not); so no closing line is
\* written without an earlier opening line and no element is opened twice
\* without being closed in between.
C19_FlagsTrackBalance ==
    /\ pc = "loop" =>
           /\ Balance(html_file, UL_OPEN, UL_CLOSE)
                  = IF in_unordered_list THEN 1 ELSE 0
           /\ Balance(html_file, OL_OPEN, OL_CLOSE)
                  = IF in_ordered_list THEN 1 ELSE 0
           /\ Balance(html_file, P_OPEN, P_CLOSE)
                  = IF in_paragraph THEN 1 ELSE 0
    /\ \A k \in 0..Len(html_file) :
           LET out == SubSeq(html_file, 1, k)
           IN  /\ Balance(out, UL_OPEN, UL_CLOSE) \in {0, 1}
               /\ Balance(out, OL_OPEN, OL_CLOSE) \in {0, 1}
               /\ Balance(out, P_OPEN, P_CLOSE) \in {0, 1}

\* both lists are open, the unordered one for the second time, after a
\* paragraph was opened and closed
C19_Witness ==
    /\ pc = "loop"
    /\ in_unordered_list /\ in_ordered_list
    /\ Count(html_file, UL_OPEN) = 2
    /\ Count(html_file, UL_CLOSE) = 1
    /\ Count(html_file, P_CLOSE) = 1

\* the lines of out that carry content: not a block tag, not a <br/> line
RECURSIVE ContentLines(_)
ContentLines(out) ==
    IF out = <<>> THEN <<>>
    ELSE (IF Head(out) \in OpenTags \cup CloseTags \cup {BR_LINE}
          THEN <<>> ELSE <<Head(out)>>)
         \o ContentLines(Tail(out))

\* the content line of the i-th input line, by its kind
ContentOf(i) ==
    LET s == strip(md_file[i])
    IN  CASE KindOfLine(i) = "heading" ->
                 heading_line(Len(split_first(s)),
                              inline(strip(slice_from(s, Len(split_first(s))))))
          [] KindOfLine(i) \in {"unordered", "ordered"} ->
                 li_line(inline(strip(slice_from(s, 2))))
          [] KindOfLine(i) = "paragraph" -> text_line(inline(s))

\* the content lines of the non-blank lines among the first n input lines
RECURSIVE ExpectedContent(_)
ExpectedContent(n) ==
    IF n = 0 THEN <<>>
    ELSE ExpectedContent(n - 1)
         \o (IF KindOfLine(n) = "blank" THEN <<>> ELSE <<ContentOf(n)>>)

\* C20: the content lines of the output are, in order, the content lines of
\* the non-blank input lines read so far, one for each and each of the kind
\* of its line; blank lines give no content line.
C20_ContentPreserved ==
    ContentLines(html_file) = ExpectedContent(lineno)

\* a whole file of a heading and a blank line followed by two paragraph lines
\* has been converted
C20_Witness ==
    /\ pc = "done"
    /\ lineno = 4
    /\ {KindOfLine(i) : i \in 1..4} = {"heading", "blank", "paragraph"}
    /\ KindOfLine(3) = "paragraph" /\ KindOfLine(4) = "paragraph"
    /\ Len(ContentLines(html_file)) = 3
    /\ IsHeadingLine(ContentLines(html_file)[1])

(* ----------------------- claims about the process --------------------- *)
\* C14: when the input path is not an existing regular file, main ends with
\* a non-zero exit code without opening the output file and without starting
\* the conversion: the only step it takes is the exit.
C14_MissingInput ==
    [][~input_is_file =>
           /\ pc' = "exit"
           /\ exit_code' # 0 /\ exit_code' # -1
           /\ ~output_opened'
           /\ lineno' = 0
           /\ html_file' = <<>>]_vars

\* main has been given two paths, has found no file and has exited with 1
C14_Witness ==
    /\ pc = "exit"
    /\ argc = 2
    /\ ~input_is_file
    /\ file_checked
    /\ ~output_opened
    /\ stderr = MissingMessage
    /\ exit_code = 1

\* the usage error: message, non-zero exit code, no file checked or opened
IsUsageError ==
    /\ pc' = "exit"
    /\ stderr' = UsageMessage
    /\ exit_code' # 0 /\ exit_code' # -1
    /\ ~file_checked'
    /\ ~output_opened'

\* C15 as stated: every invocation with a number of arguments other than two
\* is a usage error ending with a non-zero exit code before any file is
\* checked, opened or created.
C15_WrongArgumentCount ==
    [][(pc = "main" /\ argc # 2) => IsUsageError]_vars

\* C15 amended: every invocation with fewer than two arguments is a usage
\* error ending with a non-zero exit code before any file is checked, opened
\* or created; with more than two arguments the first two are used as the
\* paths and the usage error is not reported.
C15_TooFewArguments ==
    [][pc = "main" => (argc < 2 <=> IsUsageError)]_vars

\* main has been given only the input path, of an existing file, and has
\* exited with the usage message without checking it
C15_Witness ==
    /\ pc = "exit"
    /\ argc = 1
    /\ input_is_file
    /\ stderr = UsageMessage
    /\ exit_code = 1
    /\ ~file_checked /\ ~output_opened

\* the output file holds the whole conversion of the input file
WholeOutput ==
    /\ lineno = Len(md_file)
    /\ ContentLines(html_file) = ExpectedContent(Len(md_file))
    /\ Balance(html_file, UL_OPEN, UL_CLOSE) = 0
    /\ Balance(html_file, OL_OPEN, OL_CLOSE) = 0
    /\ Balance(html_file, P_OPEN, P_CLOSE) = 0

\* C16: the exit code is 0 only if every input line was processed and the
\* end-of-file flush was written; a conversion that fails (while opening,
\* reading, transforming or writing) prints 'Error: ...' and ends with a
\* non-zero exit code, never with 0.
C16_ExitCode ==
    pc = "exit" =>
        IF exit_code = 0
        THEN /\ main_branch(argc, input_is_file) = "convert"
             /\ output_opened /\ stderr = "" /\ WholeOutput
        ELSE /\ exit_code = 1
             /\ main_branch(argc, input_is_file) = "convert" =>
                    stderr = ErrorMessage

\* a conversion has failed after its first line and has exited with 1
C16_Witness ==
    /\ pc = "exit"
    /\ exit_code = 1
    /\ stderr = ErrorMessage
    /\ lineno = 1
    /\ Len(md_file) = 2
    /\ html_file # <<>>

(* ------------------- inline processing of one payload ------------------ *)
\* the text payload of the first line: the heading text, the item text or
\* the stripped line
Payload ==
    CASE classify(TheLine) = "heading" -> heading_text(TheLine)
      [] classify(TheLine) \in {"unordered", "ordered"} ->
             list_item_text(TheLine)
      [] OTHER -> TheLine

\* the text emitted for the first line: the last line written, without the
\* <hN>...</hN> or <li>...</li> tags and the indentation around it
Emitted ==
    LET l == html_file[Len(html_file)]
    IN  CASE classify(TheLine) = "heading" ->
                 SubSeq(l, Len(<<"<", "h", "1", ">">>) + 1,
                        Len(l) - Len(<<"<", "/", "h", "1", ">">>))
          [] classify(TheLine) \in {"unordered", "ordered"} ->
                 SubSeq(l, Len(INDENT) + Len(<<"<", "l", "i", ">">>) + 1,
                        Len(l) - Len(<<"<", "/", "l", "i", ">">>))
          [] OTHER -> SubSeq(l, Len(INDENT) + 1, Len(l))

\* the first line carried a payload and has been handled
HandledPayload == HandledFirst /\ classify(TheLine) # "blank"

\* text has the two characters d at position i
IsAt(text, i, d) ==
    i >= 1 /\ i + 1 <= Len(text) /\ SubSeq(text, i, i + 1) = d

\* d occurs somewhere in text
Contains(text, d) ==
    \E i \in 1..Len(text) :
        i + Len(d) - 1 <= Len(text) /\ SubSeq(text, i, i + Len(d) - 1) = d

\* how many times the character ch occurs in text
NumberOf(text, ch) == Cardinality({i \in 1..Len(text) : text[i] = ch})

Least(S) == CHOOSE x \in S : \A y \in S : x <= y

\* the characters of s other than 'c' and 'C', in order
WithoutC(s) == SelectSeq(s, LAMBDA ch : ch \notin {"c", "C"})

\* the positions where a span opened by open and closed by close, with an
\* inner text of at least least characters, starts in text
SpanStarts(text, open, close, least) ==
    {i \in 1..Len(text) :
        /\ IsAt(text, i, open)
        /\ \E j \in (i + 2 + least)..Len(text) : IsAt(text, j, close)}

\* where the shortest such span that starts at i closes
SpanClose(text, i, close, least) ==
    Least({j \in (i + 2 + least)..Len(text) : IsAt(text, j, close)})

\* text with each leftmost shortest ((...)) span whose inner text has at
\* least least characters replaced by its inner text without 'c' and 'C'
RECURSIVE StripExpected(_, _)
StripExpected(text, least) ==
    LET starts == SpanStarts(text, <<"(", "(">>, <<")", ")">>, least)
    IN  IF starts = {} THEN text
        ELSE LET i == Least(starts)
                 j == SpanClose(text, i, <<")", ")">>, least)
             IN  SubSeq(text, 1, i - 1)
                 \o WithoutC(SubSeq(text, i + 2, j - 1))
                 \o StripExpected(SubSeq(text, j + 2, Len(text)), least)

\* the payload has none of the characters of the other inline syntax
OnlyStripSyntax(text) ==
    \A i \in 1..Len(text) : text[i] \notin {"[", "*", "_"}

\* C13 as stated: each leftmost shortest span delimited by '((' and '))',
\* whatever its inner text, is replaced by its inner text with every 'c' and
\* 'C' removed and the other characters kept in order; text with an
\* unmatched '((' or '))' is left unchanged.
C13_EverySpanStripped ==
    (HandledPayload /\ OnlyStripSyntax(Payload)) =>
        Emitted = StripExpected(Payload, 0)

\* C13 amended: each leftmost shortest span delimited by '((' and '))' with
\* an inner text of at least one character is replaced by its inner text with
\* every 'c' and 'C' removed and the other characters kept in order
\* (((Cocoa)) becomes ooa); '(())' is not such a span and stays, as does text
\* with an unmatched '((' or '))'.
C13_NonEmptySpanStripped ==
    (HandledPayload /\ OnlyStripSyntax(Payload)) =>
        Emitted = StripExpected(Payload, 1)

\* ((Cocoa)) has been written as ooa
C13_Witness ==
    /\ HandledPayload
    /\ Payload = <<"(", "(", "C", "o", "c", "o", "a", ")", ")">>
    /\ Emitted = <<"o", "o", "a">>

\* the inner texts of the [[...]] spans the payload carries
HashedInners == {x \in HashInners : Contains(Payload, HashSpan(x))}

\* C12: the hash substitution and the strip substitution are independent:
\* the digest that replaces a [[...]] span is not modified by the ((...))
\* strip pass that follows, so the emitted text carries the digest of the
\* span's inner text whole.
C12_DigestUnmodified ==
    HandledPayload =>
        \A x \in HashedInners : Contains(Emitted, md5_hexdigest(x))

\* text without its leftmost shortest spans opened by open and closed by
\* close, those with an inner text of at least one character
RECURSIVE SpansRemoved(_, _, _)
SpansRemoved(text, open, close) ==
    LET starts == SpanStarts(text, open, close, 1)
    IN  IF starts = {} THEN text
        ELSE LET i == Least(starts)
                 j == SpanClose(text, i, close, 1)
             IN  SubSeq(text, 1, i - 1)
                 \o SpansRemoved(SubSeq(text, j + 2, Len(text)), open, close)

\* what lies outside the [[...]] spans of text, and outside its spans of
\* both kinds
OutsideHashSpans(text) == SpansRemoved(text, <<"[", "[">>, <<"]", "]">>)
OutsideSpans(text) ==
    SpansRemoved(OutsideHashSpans(text), <<"(", "(">>, <<")", ")">>)

\* text has too few marker characters for a '**' or '__' pair with some
\* text in between, which takes four of them
NoMarkerPair(text) == NumberOf(text, "*") < 4 /\ NumberOf(text, "_") < 4

HasEmphasisTag(text) ==
    Contains(text, <<"<", "b", ">">>) \/ Contains(text, <<"<", "e", "m", ">">>)

\* C11 as stated: hash/strip processing comes before emphasis processing, so
\* emphasis markers inside a [[...]] or a ((...)) span are never turned into
\* <b> or <em> tags: a payload without a marker pair outside its spans is
\* emitted without such tags.
C11_NoTagsFromSpans ==
    (HandledPayload /\ NoMarkerPair(OutsideSpans(Payload))) =>
        ~HasEmphasisTag(Emitted)

\* C11 amended: hash/strip processing comes before emphasis processing, so
\* emphasis markers inside a [[...]] span are never turned into <b> or <em>
\* tags; the inner text of a ((...)) span is kept but for its 'c' and 'C',
\* and the markers in it are then processed as emphasis like any others.
C11_NoTagsFromHashSpans ==
    HandledPayload =>
        /\ NoMarkerPair(OutsideHashSpans(Payload)) => ~HasEmphasisTag(Emitted)
        /\ \A x \in StripInners :
               Payload = StripSpan(x) => Emitted = parse_bold_text(WithoutC(x))

\* [[**a**]] has been written as the digest of **a**
C11_Witness ==
    /\ HandledPayload
    /\ Payload = HashSpan(<<"*", "*", "a", "*", "*">>)
    /\ Emitted = md5_hexdigest(<<"*", "*", "a", "*", "*">>)

====
